---- MODULE Spec2Model ----
(***************************************************************************)
(* A model of dicom-rs: the storescp server (storescp/src/main.rs) and the *)
(* text codecs of the encoding crate (encoding/src/text.rs).               *)
(*                                                                         *)
(* Four specifications share the variables:                                *)
(*   Spec      the server's startup and accept loop, run_sync and          *)
(*             run_async side by side against one environment script;      *)
(*   SpecDimse one association's command exchange and the two response     *)
(*             builders create_cecho_response / create_cstore_response;    *)
(*   SpecText  TextCodec::encode / TextCodec::decode of the five codecs.   *)
(*   SpecCharset  SpecificCharacterSet::codec, TextCodec::name, from_code.  *)
(***************************************************************************)
EXTENDS Integers, Sequences, FiniteSets, TLC

VARIABLES
    env,        \* what the operating system and the peers do: the outcome of
                \* create_dir_all, of bind, of each accept, of each handler
    sync_srv,   \* the process started with non_blocking = false (run_sync)
    async_srv,  \* the process started with non_blocking = true  (run_async)
    assoc,      \* one association: the abstract syntaxes negotiated, requests handled
    last,       \* the request handled last, its outcome and the response sent
    out_dir,    \* SOP instance UIDs of the objects stored in the output directory
    txt,        \* one TextCodec call: codec, input, decoder position, output
    lookup      \* one character set lookup: codec(), name(), from_code()

vars == <<env, sync_srv, async_srv, assoc, last, out_dir, txt, lookup>>

srv_vars == <<env, sync_srv, async_srv>>
dimse_vars == <<assoc, last, out_dir>>

(***************************************************************************)
(* Bounds of the model.                                                    *)
(***************************************************************************)
MaxConn == 2        \* results the accept step returns in one run
MaxRequests == 3    \* requests one association handles
MaxLen == 3         \* length of a text value, in bytes or in characters
MaxPad == 2         \* whitespace characters that follow an identifier

(***************************************************************************)
(* Part 1.  The server: main, run_sync, run_async.                         *)
(***************************************************************************)

\* std::process::exit(-2), main.rs lines 109, 115, 141, 181
EXIT_FAILURE == -2

Conns == 1..MaxConn
Outcome == {"ok", "err"}

\* The state of one server process right after App::parse().
ServerInit ==
    [ pc        |-> "create_dir",   \* create_dir, bind, accept, in_handler, exited
      exit_code |-> 0,              \* meaningful when pc = "exited"
      dir_made  |-> FALSE,          \* create_dir_all has succeeded
      listener  |-> FALSE,          \* TcpListener::bind has succeeded
      accepted  |-> 0,              \* results taken from accept so far
      task      |-> [c \in Conns |-> "none"],  \* none, running, done, failed, killed
      handed    |-> {},             \* connections handed to run_store_*
      errors    |-> 0 ]             \* lines written by error!

\* std::process::exit: the process ends, and every task still running with it.
Exit(s, code) ==
    [s EXCEPT !.pc = "exited",
              !.exit_code = code,
              !.task = [c \in Conns |-> IF s.task[c] = "running" THEN "killed"
                                        ELSE s.task[c]]]

\* error!(...)
LogError(s) == [s EXCEPT !.errors = @ + 1]

\* The Err arm of unwrap_or_else in main: log the error, exit(-2).
MainUnwrapErr(s) == Exit(LogError(s), EXIT_FAILURE)

\* A connection handler is started on connection c.
Hand(s, c) == [s EXCEPT !.task[c] = "running", !.handed = @ \cup {c}]

\* The next result of accept, when the peers have produced one.
HasNext(s) == s.accepted < MaxConn
NextResult(s) == env.incoming[s.accepted + 1]

----------------------------------------------------------------------------
(* run_sync *)

SyncCreateDirOk ==
    /\ sync_srv.pc = "create_dir"
    /\ env.create_dir = "ok"
    /\ sync_srv' = [sync_srv EXCEPT !.pc = "bind", !.dir_made = TRUE]
    /\ UNCHANGED <<env, async_srv, dimse_vars, txt, lookup>>

SyncCreateDirErr ==
    /\ sync_srv.pc = "create_dir"
    /\ env.create_dir = "err"
    /\ sync_srv' = Exit(LogError(sync_srv), EXIT_FAILURE)
    /\ UNCHANGED <<env, async_srv, dimse_vars, txt, lookup>>

SyncBindOk ==
    /\ sync_srv.pc = "bind"
    /\ env.bind = "ok"
    /\ sync_srv' = [sync_srv EXCEPT !.pc = "accept", !.listener = TRUE]
    /\ UNCHANGED <<env, async_srv, dimse_vars, txt, lookup>>

\* bind(listen_addr)? returns the error to main
SyncBindErr ==
    /\ sync_srv.pc = "bind"
    /\ env.bind = "err"
    /\ sync_srv' = MainUnwrapErr(sync_srv)
    /\ UNCHANGED <<env, async_srv, dimse_vars, txt, lookup>>

\* Ok(scu_stream) => run_store_sync(scu_stream, &args) is called in the loop's
\* own thread: the loop takes no further stream until the call returns.
SyncAcceptOk ==
    /\ sync_srv.pc = "accept"
    /\ HasNext(sync_srv)
    /\ NextResult(sync_srv) = "ok"
    /\ sync_srv' = [Hand(sync_srv, sync_srv.accepted + 1)
                        EXCEPT !.accepted = @ + 1, !.pc = "in_handler"]
    /\ UNCHANGED <<env, async_srv, dimse_vars, txt, lookup>>

\* Err(e) => error!(...), and the for loop goes on
SyncAcceptErr ==
    /\ sync_srv.pc = "accept"
    /\ HasNext(sync_srv)
    /\ NextResult(sync_srv) = "err"
    /\ sync_srv' = [LogError(sync_srv) EXCEPT !.accepted = @ + 1]
    /\ UNCHANGED <<env, async_srv, dimse_vars, txt, lookup>>

\* run_store_sync returns Ok(())
SyncStoreOk(c) ==
    /\ sync_srv.pc = "in_handler"
    /\ sync_srv.task[c] = "running"
    /\ env.store[c] = "ok"
    /\ sync_srv' = [sync_srv EXCEPT !.task[c] = "done", !.pc = "accept"]
    /\ UNCHANGED <<env, async_srv, dimse_vars, txt, lookup>>

SyncStoreErr_propagated(c) ==
    /\ sync_srv.pc = "in_handler"
    /\ sync_srv.task[c] = "running"
    /\ env.store[c] = "err"
    /\ sync_srv' = MainUnwrapErr([sync_srv EXCEPT !.task[c] = "failed"])
    /\ UNCHANGED <<env, async_srv, dimse_vars, txt, lookup>>

\* if let Err(e) = run_store_sync(..) { error!(..) }
SyncStoreErr(c) ==
    /\ sync_srv.pc = "in_handler"
    /\ sync_srv.task[c] = "running"
    /\ env.store[c] = "err"
    /\ sync_srv' = [LogError(sync_srv) EXCEPT !.task[c] = "failed", !.pc = "accept"]
    /\ UNCHANGED <<env, async_srv, dimse_vars, txt, lookup>>

----------------------------------------------------------------------------
(* run_async *)

AsyncCreateDirOk ==
    /\ async_srv.pc = "create_dir"
    /\ env.create_dir = "ok"
    /\ async_srv' = [async_srv EXCEPT !.pc = "bind", !.dir_made = TRUE]
    /\ UNCHANGED <<env, sync_srv, dimse_vars, txt, lookup>>

AsyncCreateDirErr ==
    /\ async_srv.pc = "create_dir"
    /\ env.create_dir = "err"
    /\ async_srv' = Exit(LogError(async_srv), EXIT_FAILURE)
    /\ UNCHANGED <<env, sync_srv, dimse_vars, txt, lookup>>

AsyncBindOk ==
    /\ async_srv.pc = "bind"
    /\ env.bind = "ok"
    /\ async_srv' = [async_srv EXCEPT !.pc = "accept", !.listener = TRUE]
    /\ UNCHANGED <<env, sync_srv, dimse_vars, txt, lookup>>

AsyncBindErr_ignored ==
    /\ async_srv.pc = "bind"
    /\ env.bind = "err"
    /\ async_srv' = [LogError(async_srv) EXCEPT !.pc = "accept"]
    /\ UNCHANGED <<env, sync_srv, dimse_vars, txt, lookup>>

\* bind(listen_addr).await? returns the error to main
AsyncBindErr ==
    /\ async_srv.pc = "bind"
    /\ env.bind = "err"
    /\ async_srv' = MainUnwrapErr(async_srv)
    /\ UNCHANGED <<env, sync_srv, dimse_vars, txt, lookup>>

\* let (socket, _addr) = listener.accept().await?; tokio::task::spawn(..):
\* the handler runs as a task of its own and the loop goes back to accept.
AsyncAcceptOk ==
    /\ async_srv.pc = "accept"
    /\ HasNext(async_srv)
    /\ NextResult(async_srv) = "ok"
    /\ async_srv' = [Hand(async_srv, async_srv.accepted + 1)
                        EXCEPT !.accepted = @ + 1]
    /\ UNCHANGED <<env, sync_srv, dimse_vars, txt, lookup>>

\* listener.accept().await? : the error leaves the loop and run_async, and
\* main's unwrap_or_else logs it and exits with -2.
AsyncAcceptErr ==
    /\ async_srv.pc = "accept"
    /\ HasNext(async_srv)
    /\ NextResult(async_srv) = "err"
    /\ async_srv' = MainUnwrapErr([async_srv EXCEPT !.accepted = @ + 1])
    /\ UNCHANGED <<env, sync_srv, dimse_vars, txt, lookup>>

\* the spawned task: run_store_async returns Ok(())
AsyncStoreOk(c) ==
    /\ async_srv.pc # "exited"
    /\ async_srv.task[c] = "running"
    /\ env.store[c] = "ok"
    /\ async_srv' = [async_srv EXCEPT !.task[c] = "done"]
    /\ UNCHANGED <<env, sync_srv, dimse_vars, txt, lookup>>

\* the spawned task: if let Err(e) = run_store_async(..).await { error!(..) }
AsyncStoreErr(c) ==
    /\ async_srv.pc # "exited"
    /\ async_srv.task[c] = "running"
    /\ env.store[c] = "err"
    /\ async_srv' = [LogError(async_srv) EXCEPT !.task[c] = "failed"]
    /\ UNCHANGED <<env, sync_srv, dimse_vars, txt, lookup>>

----------------------------------------------------------------------------
\* Values of the variables a specification does not use.
AssocIdle == [accepted |-> {}, handled |-> 0]
LastIdle == [kind |-> "none"]
TxtIdle ==
    [ phase       |-> "idle",     \* idle, feed, trap, done, encode_err
      cs          |-> "Default",  \* the SpecificCharacterSet whose codec is used
      encoded     |-> FALSE,      \* text is the result of encode(origin)
      origin      |-> <<>>,       \* the string given to encode
      text        |-> <<>>,       \* the bytes given to decode
      unprocessed |-> 0,          \* decode_to: where the invalid sequence starts
      remaining   |-> 0,          \* decode_to: bytes of text consumed
      ret         |-> <<>>,       \* the characters written so far
      result      |-> "pending" ] \* pending, Ok, Err
LookupIdle ==
    [ phase   |-> "idle",     \* idle, named, given, looked
      cs      |-> "none",     \* the variant whose codec gave the name
      base    |-> <<>>,       \* the identifier before any padding
      uid     |-> <<>>,       \* the identifier given to from_code
      found   |-> FALSE,      \* from_code returned Some
      variant |-> "none" ]    \* the variant from_code returned
EnvIdle == [create_dir |-> "ok", bind |-> "ok",
            incoming |-> [k \in Conns |-> "ok"], store |-> [c \in Conns |-> "ok"]]

Init ==
    /\ env \in [create_dir : Outcome, bind : Outcome,
                incoming : [Conns -> Outcome], store : [Conns -> Outcome]]
    /\ sync_srv = ServerInit
    /\ async_srv = ServerInit
    /\ assoc = AssocIdle
    /\ last = LastIdle
    /\ out_dir = {}
    /\ txt = TxtIdle
    /\ lookup = LookupIdle

Next ==
    \/ SyncCreateDirOk
    \/ SyncCreateDirErr
    \/ SyncBindOk
    \/ SyncBindErr
    \/ SyncAcceptOk
    \/ SyncAcceptErr
    \/ \E c \in Conns : SyncStoreOk(c)
    \/ \E c \in Conns : SyncStoreErr(c)
    \/ AsyncCreateDirOk
    \/ AsyncCreateDirErr
    \/ AsyncBindOk
    \/ AsyncBindErr
    \/ AsyncAcceptOk
    \/ AsyncAcceptErr
    \/ \E c \in Conns : AsyncStoreOk(c)
    \/ \E c \in Conns : AsyncStoreErr(c)

Spec == Init /\ [][Next]_vars

----------------------------------------------------------------------------
(* Properties of the server *)

Servers == {sync_srv, async_srv}

Running(s) == \E c \in Conns : s.task[c] = "running"

\* The step from s to t is connection c's handler ending with an error.
HandlerFails(s, t, c) == s.task[c] = "running" /\ t.task[c] = "failed"

\* What such a step may change: the handler's own slot and the log.
OnlyLogged(s, t, c) ==
    /\ t.pc = "accept"
    /\ t.listener
    /\ t.errors = s.errors + 1
    /\ t.accepted = s.accepted
    /\ t.handed = s.handed
    /\ \A d \in Conns \ {c} : t.task[d] = s.task[d]

\* C4: under both execution models, a connection handler that ends with an
\* error is only logged: after that step the server is at its accept step,
\* still listening, with one more error line, and no other handler has
\* changed state (none was stopped, none was started, none was lost).
C4_HandlerErrorOnlyLogged ==
    [][\A c \in Conns :
          /\ HandlerFails(sync_srv, sync_srv', c) => OnlyLogged(sync_srv, sync_srv', c)
          /\ HandlerFails(async_srv, async_srv', c) => OnlyLogged(async_srv, async_srv', c)
      ]_vars

\* C4's case: under both models the first handler failed and the connection
\* that arrived after it was handed to a handler.
C4_Witness ==
    /\ sync_srv.task[1] = "failed" /\ 2 \in sync_srv.handed
    /\ async_srv.task[1] = "failed" /\ 2 \in async_srv.handed

\* C5: under both execution models an error returned by the accept step is
\* logged and does not end the accept loop: a server that has bound its
\* listener is, after any number of accept errors, still in the loop.
C5_AcceptErrorKeepsListening ==
    \A s \in Servers : s.listener => s.pc \in {"accept", "in_handler"}

\* C6: under both execution models a connection that arrives while an earlier
\* session is still open is accepted without waiting for that session to end:
\* whenever a handler is running and the peers have produced a connection,
\* the server is at its accept step to take it.
C6_SessionsRunSimultaneously ==
    \A s \in Servers :
        (Running(s) /\ HasNext(s) /\ NextResult(s) = "ok") => s.pc = "accept"

\* C7: startup is fail-fast under both execution models: once startup is over
\* and create_dir_all or bind has failed, the process has exited with -2
\* after one attempt (one error line), is not listening and has accepted and
\* handed nothing; and whatever was accepted or handed was so after both the
\* directory creation and the bind succeeded.
C7_StartupFailFast ==
    \A s \in Servers :
        /\ (s.pc \notin {"create_dir", "bind"} /\ "err" \in {env.create_dir, env.bind})
              => /\ s.pc = "exited"
                 /\ s.exit_code = EXIT_FAILURE
                 /\ s.errors = 1
                 /\ ~s.listener
                 /\ s.accepted = 0
                 /\ s.handed = {}
        /\ (s.accepted > 0 \/ s.handed # {} \/ Running(s))
              => s.dir_made /\ s.listener

\* C7's case: the directory was created, bind failed, both processes exited.
C7_Witness ==
    /\ env.create_dir = "ok" /\ env.bind = "err"
    /\ sync_srv.pc = "exited" /\ sync_srv.dir_made
    /\ async_srv.pc = "exited" /\ async_srv.dir_made

\* A server that has nothing left to do with the script it was given.
Quiescent(s) ==
    \/ s.pc = "exited"
    \/ s.pc = "accept" /\ ~HasNext(s) /\ ~Running(s)

\* What C8 compares: listening or terminated, the exit code, the connections
\* handed to a handler.
Observed(s) ==
    [terminated |-> s.pc = "exited",
     exit_code  |-> IF s.pc = "exited" THEN s.exit_code ELSE 0,
     handed     |-> s.handed]

\* C8: run_sync and run_async are behaviourally identical: given the same
\* startup outcomes, accept results and handler results, once both have
\* worked through them they are in the same server state (listening or
\* terminated, same exit code) and have handed the same connections.
C8_SyncAsyncIdentical ==
    (Quiescent(sync_srv) /\ Quiescent(async_srv))
        => Observed(sync_srv) = Observed(async_srv)


(***************************************************************************)
(* Part 2.  One association: the command exchange and the response         *)
(* builders of main.rs.                                                    *)
(***************************************************************************)

\* dicom_dictionary_std::tags, as main.rs names them
AFFECTED_SOP_CLASS_UID == "AffectedSOPClassUID"
COMMAND_FIELD == "CommandField"
MESSAGE_ID_BEING_RESPONDED_TO == "MessageIDBeingRespondedTo"
COMMAND_DATA_SET_TYPE == "CommandDataSetType"
STATUS == "Status"
AFFECTED_SOP_INSTANCE_UID == "AffectedSOPInstanceUID"

C_STORE_RSP == 32769        \* 0x8001, main.rs line 62
C_ECHO_RSP == 32816         \* 0x8030, main.rs line 84
NO_DATA_SET == 257          \* 0x0101, main.rs lines 71, 93
STATUS_SUCCESS == 0         \* 0x0000, main.rs lines 73, 95

\* message_id: u16 -- the values the model lets a peer use
MessageIds == {0, 1, 65535}
\* the storage SOP classes and the instances the model lets a peer send
SopClasses == {"1.2.840.10008.5.1.4.1.1.2", "1.2.840.10008.5.1.4.1.1.4"}
SopInstances == {"1.2.3.1", "1.2.3.2"}

\* DataElement::new(tag, vr, value); a U16 value is the list of its numbers,
\* a Str value the string.
DataElement(tag, vr, value) == [tag |-> tag, vr |-> vr, value |-> value]

\* InMemDicomObject::command_from_element_iter: the object holds one element
\* per tag, the last one given for it.  (The group length element it also
\* computes from the elements' encoded sizes is left out.)
command_from_element_iter(elems) ==
    [t \in {elems[k].tag : k \in DOMAIN elems} |->
        LET k == CHOOSE k \in DOMAIN elems :
                    /\ elems[k].tag = t
                    /\ \A j \in DOMAIN elems : j > k => elems[j].tag # t
        IN  [vr |-> elems[k].vr, value |-> elems[k].value]]

create_cstore_response_swapped(message_id, sop_class_uid, sop_instance_uid) ==
    command_from_element_iter(<<
        DataElement(AFFECTED_SOP_CLASS_UID, "UI", sop_instance_uid),
        DataElement(COMMAND_FIELD, "US", <<C_STORE_RSP>>),
        DataElement(MESSAGE_ID_BEING_RESPONDED_TO, "US", <<message_id>>),
        DataElement(COMMAND_DATA_SET_TYPE, "US", <<NO_DATA_SET>>),
        DataElement(STATUS, "US", <<STATUS_SUCCESS>>),
        DataElement(AFFECTED_SOP_INSTANCE_UID, "UI", sop_class_uid) >>)

create_cstore_response(message_id, sop_class_uid, sop_instance_uid) ==
    command_from_element_iter(<<
        DataElement(AFFECTED_SOP_CLASS_UID, "UI", sop_class_uid),
        DataElement(COMMAND_FIELD, "US", <<C_STORE_RSP>>),
        DataElement(MESSAGE_ID_BEING_RESPONDED_TO, "US", <<message_id>>),
        DataElement(COMMAND_DATA_SET_TYPE, "US", <<NO_DATA_SET>>),
        DataElement(STATUS, "US", <<STATUS_SUCCESS>>),
        DataElement(AFFECTED_SOP_INSTANCE_UID, "UI", sop_instance_uid) >>)

create_cecho_response_stale_id(message_id) ==
    command_from_element_iter(<<
        DataElement(COMMAND_FIELD, "US", <<C_ECHO_RSP>>),
        DataElement(MESSAGE_ID_BEING_RESPONDED_TO, "US", <<assoc.handled>>),
        DataElement(COMMAND_DATA_SET_TYPE, "US", <<NO_DATA_SET>>),
        DataElement(STATUS, "US", <<STATUS_SUCCESS>>) >>)

create_cecho_response(message_id) ==
    command_from_element_iter(<<
        DataElement(COMMAND_FIELD, "US", <<C_ECHO_RSP>>),
        DataElement(MESSAGE_ID_BEING_RESPONDED_TO, "US", <<message_id>>),
        DataElement(COMMAND_DATA_SET_TYPE, "US", <<NO_DATA_SET>>),
        DataElement(STATUS, "US", <<STATUS_SUCCESS>>) >>)

----------------------------------------------------------------------------
(* The command processor of run_store_sync / run_store_async.  Their files  *)
(* (store_sync.rs, store_async.rs) are declared by main.rs lines 13-17 and  *)
(* are not part of the sources at hand: the dispatch below follows section  *)
(* 4.2 of the specification, and every response is built by the builders    *)
(* above, the only ones the program has.                                    *)

\* One request has been handled: what it was, how it went, what was sent.
Handled(rq, outcome, rsp) ==
    /\ assoc.handled < MaxRequests
    /\ assoc' = [assoc EXCEPT !.handled = @ + 1]
    /\ last' = [kind |-> rq.kind, rq |-> rq, outcome |-> outcome, rsp |-> rsp]
    /\ UNCHANGED <<srv_vars, txt, lookup>>

CEchoRq(m) == [kind |-> "C-ECHO-RQ", message_id |-> m]
CStoreRq(m, c, i) ==
    [kind |-> "C-STORE-RQ", message_id |-> m, sop_class_uid |-> c, sop_instance_uid |-> i]

\* verification request: always succeeds, nothing is stored
HandleCEcho(m) ==
    /\ Handled(CEchoRq(m), "ok", create_cecho_response(m))
    /\ UNCHANGED out_dir

\* storage request, step 1: no accepted context for the abstract syntax
HandleCStoreNotNegotiated(m, c, i) ==
    /\ c \notin assoc.accepted
    /\ Handled(CStoreRq(m, c, i), "not_negotiated", create_cstore_response(m, c, i))
    /\ UNCHANGED out_dir

\* storage request, step 2: the dataset does not decode
HandleCStoreDecodeError(m, c, i) ==
    /\ c \in assoc.accepted
    /\ Handled(CStoreRq(m, c, i), "decode_error", create_cstore_response(m, c, i))
    /\ UNCHANGED out_dir

\* storage request, step 3: the file cannot be written
HandleCStoreWriteError(m, c, i) ==
    /\ c \in assoc.accepted
    /\ Handled(CStoreRq(m, c, i), "write_error", create_cstore_response(m, c, i))
    /\ UNCHANGED out_dir

\* storage request, step 4: the object is stored under its instance UID
HandleCStoreStored(m, c, i) ==
    /\ c \in assoc.accepted
    /\ Handled(CStoreRq(m, c, i), "stored", create_cstore_response(m, c, i))
    /\ out_dir' = out_dir \cup {i}

InitDimse ==
    /\ env = EnvIdle
    /\ sync_srv = ServerInit
    /\ async_srv = ServerInit
    /\ assoc \in [accepted : SUBSET SopClasses \ {{}}, handled : {0}]
    /\ last = LastIdle
    /\ out_dir = {}
    /\ txt = TxtIdle
    /\ lookup = LookupIdle

NextDimse ==
    \/ \E m \in MessageIds : HandleCEcho(m)
    \/ \E m \in MessageIds, c \in SopClasses, i \in SopInstances :
          HandleCStoreNotNegotiated(m, c, i)
    \/ \E m \in MessageIds, c \in SopClasses, i \in SopInstances :
          HandleCStoreDecodeError(m, c, i)
    \/ \E m \in MessageIds, c \in SopClasses, i \in SopInstances :
          HandleCStoreWriteError(m, c, i)
    \/ \E m \in MessageIds, c \in SopClasses, i \in SopInstances :
          HandleCStoreStored(m, c, i)

SpecDimse == InitDimse /\ [][NextDimse]_vars

----------------------------------------------------------------------------
(* Properties of the responses *)

\* the number a response carries under a US tag
U16At(rsp, tag) == rsp[tag].value[1]

\* C1: the response to a verification request with message id m, whatever
\* the association handled before, has exactly the four elements command
\* field 0x8030, message id being responded to m, data set type 0x0101 and
\* status 0x0000: no affected SOP class or instance UID.
C1_CEchoResponse ==
    last.kind = "C-ECHO-RQ" =>
        /\ DOMAIN last.rsp = {"CommandField", "MessageIDBeingRespondedTo",
                              "CommandDataSetType", "Status"}
        /\ \A t \in DOMAIN last.rsp : last.rsp[t].vr = "US" /\ Len(last.rsp[t].value) = 1
        /\ U16At(last.rsp, "CommandField") = 32816
        /\ U16At(last.rsp, "MessageIDBeingRespondedTo") = last.rq.message_id
        /\ U16At(last.rsp, "CommandDataSetType") = 257
        /\ U16At(last.rsp, "Status") = 0

\* C1's case: a verification request with the largest message id, answered
\* after the association had stored an object and handled another request.
C1_Witness ==
    /\ last.kind = "C-ECHO-RQ"
    /\ last.rq.message_id = 65535
    /\ assoc.handled >= 2
    /\ out_dir # {}

\* C2: the response to a storage request with message id m, SOP class c and
\* SOP instance i carries command field 0x8001, message id being responded
\* to m, data set type 0x0101, a status code, and the affected SOP class and
\* instance UIDs c and i, each under its own tag.
C2_CStoreResponse ==
    last.kind = "C-STORE-RQ" =>
        /\ DOMAIN last.rsp = {"AffectedSOPClassUID", "CommandField",
                              "MessageIDBeingRespondedTo", "CommandDataSetType",
                              "Status", "AffectedSOPInstanceUID"}
        /\ U16At(last.rsp, "CommandField") = 32769
        /\ U16At(last.rsp, "MessageIDBeingRespondedTo") = last.rq.message_id
        /\ U16At(last.rsp, "CommandDataSetType") = 257
        /\ U16At(last.rsp, "Status") \in 0..65535
        /\ last.rsp["AffectedSOPClassUID"].value = last.rq.sop_class_uid
        /\ last.rsp["AffectedSOPInstanceUID"].value = last.rq.sop_instance_uid

\* C2's case: a storage request that was stored and answered.
C2_Witness ==
    /\ last.kind = "C-STORE-RQ"
    /\ last.outcome = "stored"
    /\ last.rq.message_id = 65535
    /\ last.rq.sop_instance_uid \in out_dir

\* C3: a storage request that cannot be completed (abstract syntax not
\* negotiated, dataset not decodable, file not writable) is answered with a
\* storage response whose status is a failure code, not 0x0000.
C3_FailureStatusOnFailedStore ==
    (last.kind = "C-STORE-RQ" /\ last.outcome # "stored")
        => U16At(last.rsp, "Status") # 0

(***************************************************************************)
(* Part 3.  The text codecs of encoding/src/text.rs.                       *)
(* A character is its Unicode code point, a string a sequence of           *)
(* characters, a byte a number in 0..255.                                  *)
(***************************************************************************)

\* enum SpecificCharacterSet
CharacterSets == {"Default", "IsoIr100", "IsoIr101", "IsoIr192", "GB18030"}

\* Bytes the model feeds to decode: 'A', '\', and bytes above 0x7F that are
\* UTF-8 lead bytes (C3, E2), a continuation byte (B5) and bytes no UTF-8
\* text holds (F5, FF).
SampleBytes == {65, 92, 181, 195, 226, 245, 255}
\* For GB18030: ' ', the lead and trail byte D0, and FF, which is neither.
SampleBytesGb == {32, 208, 255}
\* Characters the model gives to encode: A \ o-tilde o-double-acute zhong
SampleChars == {65, 92, 245, 337, 20013}
\* For GB18030: A zhong xing
SampleCharsGb == {65, 20013, 34892}

SeqsUpTo(S, n) == UNION {[1..k -> S] : k \in 0..n}

ByteSeqs(cs) == SeqsUpTo(IF cs = "GB18030" THEN SampleBytesGb ELSE SampleBytes, MaxLen)
Strings(cs) == SeqsUpTo(IF cs = "GB18030" THEN SampleCharsGb ELSE SampleChars, MaxLen)

RECURSIVE Flatten(_)
Flatten(ss) == IF ss = <<>> THEN <<>> ELSE Head(ss) \o Flatten(Tail(ss))

\* What a decoder finds at one place of its input: a character made of len
\* bytes, or an invalid sequence of len bytes.
Char(ch, len) == [kind |-> "char", ch |-> ch, len |-> len]
Invalid(len) == [kind |-> "invalid", ch |-> 0, len |-> len]

----------------------------------------------------------------------------
(* encoding::all::ISO_8859_1 : byte b is the character U+00b *)

ISO_8859_1_scan(text, p) == Char(text[p + 1], 1)

ISO_8859_1_can_encode(ch) == ch <= 255
ISO_8859_1_encode_char(ch) == <<ch>>

----------------------------------------------------------------------------
(* encoding::all::ISO_8859_2 : the rows of its index the model uses *)

ISO_8859_2_high ==
    [b \in {161, 181, 195, 226, 245, 252, 255} |->
        CASE b = 161 -> 260     \* A1  U+0104
          [] b = 181 -> 318     \* B5  U+013E
          [] b = 195 -> 258     \* C3  U+0102
          [] b = 226 -> 226     \* E2  U+00E2
          [] b = 245 -> 337     \* F5  U+0151
          [] b = 252 -> 252     \* FC  U+00FC
          [] b = 255 -> 729 ]   \* FF  U+02D9

ISO_8859_2_scan(text, p) ==
    LET b == text[p + 1]
    IN  Char(IF b < 128 THEN b ELSE ISO_8859_2_high[b], 1)

ISO_8859_2_can_encode(ch) ==
    ch < 128 \/ \E b \in DOMAIN ISO_8859_2_high : ISO_8859_2_high[b] = ch
ISO_8859_2_encode_char(ch) ==
    IF ch < 128 THEN <<ch>>
    ELSE <<CHOOSE b \in DOMAIN ISO_8859_2_high : ISO_8859_2_high[b] = ch>>

----------------------------------------------------------------------------
(* encoding::all::UTF_8 *)

\* continuation bytes a lead byte asks for; -1: no character starts with it
UTF_8_need(b) ==
    CASE b < 128 -> 0
      [] b \in 194..223 -> 1
      [] b \in 224..239 -> 2
      [] b \in 240..244 -> 3
      [] OTHER -> -1

\* the bytes allowed at place k after lead byte b (no overlong form, no
\* surrogate, nothing above U+10FFFF)
UTF_8_allowed(b, k) ==
    CASE k = 1 /\ b = 224 -> 160..191
      [] k = 1 /\ b = 237 -> 128..159
      [] k = 1 /\ b = 240 -> 144..191
      [] k = 1 /\ b = 244 -> 128..143
      [] OTHER -> 128..191

UTF_8_scan_short_mask(text, p) ==
    LET b == text[p + 1]
        need == UTF_8_need(b)
        Good(j) == \A k \in 1..j : /\ p + 1 + k <= Len(text)
                                   /\ text[p + 1 + k] \in UTF_8_allowed(b, k)
        good == CHOOSE j \in 0..3 : /\ j <= need /\ Good(j)
                                    /\ (j < need => ~Good(j + 1))
        c(k) == (text[p + 1 + k] - 128) % 32
    IN  IF need = -1 THEN Invalid(1)
        ELSE IF good < need THEN Invalid(1 + good)
        ELSE CASE need = 0 -> Char(b, 1)
               [] need = 1 -> Char(((b - 192) * 64) + c(1), 2)
               [] need = 2 -> Char(((b - 224) * 4096) + (c(1) * 64) + c(2), 3)
               [] need = 3 -> Char(((b - 240) * 262144) + (c(1) * 4096) + (c(2) * 64) + c(3), 4)

\* The decoder at offset p: a character, or the invalid sequence that starts
\* there.  A byte that cannot follow is not part of the invalid sequence (it
\* is looked at again as the start of the next one); a sequence the end of
\* the input cuts short is invalid as a whole.
UTF_8_scan(text, p) ==
    LET b == text[p + 1]
        need == UTF_8_need(b)
        Good(j) == \A k \in 1..j : /\ p + 1 + k <= Len(text)
                                   /\ text[p + 1 + k] \in UTF_8_allowed(b, k)
        good == CHOOSE j \in 0..3 : /\ j <= need /\ Good(j)
                                    /\ (j < need => ~Good(j + 1))
        c(k) == text[p + 1 + k] - 128
    IN  IF need = -1 THEN Invalid(1)
        ELSE IF good < need THEN Invalid(1 + good)
        ELSE CASE need = 0 -> Char(b, 1)
               [] need = 1 -> Char(((b - 192) * 64) + c(1), 2)
               [] need = 2 -> Char(((b - 224) * 4096) + (c(1) * 64) + c(2), 3)
               [] need = 3 -> Char(((b - 240) * 262144) + (c(1) * 4096) + (c(2) * 64) + c(3), 4)

UTF_8_can_encode(ch) == TRUE
UTF_8_encode_char(ch) ==
    CASE ch < 128   -> <<ch>>
      [] ch \in 128..2047 -> <<192 + (ch \div 64), 128 + (ch % 64)>>
      [] ch \in 2048..65535 ->
            <<224 + (ch \div 4096), 128 + ((ch \div 64) % 64), 128 + (ch % 64)>>
      [] OTHER ->
            <<240 + (ch \div 262144), 128 + ((ch \div 4096) % 64),
              128 + ((ch \div 64) % 64), 128 + (ch % 64)>>

----------------------------------------------------------------------------
(* encoding::all::GB18030 : one- and two-byte forms, and the rows of its    *)
(* index the model uses                                                     *)

GB18030_two_bytes ==
    [pair \in {<<214, 208>>, <<208, 208>>} |->
        IF pair = <<214, 208>> THEN 20013      \* D6 D0  U+4E2D
        ELSE 34892]                            \* D0 D0  U+884C

GB18030_trail == (64..126) \cup (128..254)

GB18030_scan(text, p) ==
    LET b == text[p + 1]
    IN  IF b < 128 THEN Char(b, 1)
        ELSE IF b \notin 129..254 THEN Invalid(1)
        ELSE IF p + 2 > Len(text) THEN Invalid(1)
        ELSE IF text[p + 2] \notin GB18030_trail THEN Invalid(1)
        ELSE Char(GB18030_two_bytes[<<b, text[p + 2]>>], 2)

GB18030_can_encode(ch) ==
    ch < 128 \/ \E pair \in DOMAIN GB18030_two_bytes : GB18030_two_bytes[pair] = ch
GB18030_encode_char(ch) ==
    IF ch < 128 THEN <<ch>>
    ELSE CHOOSE pair \in DOMAIN GB18030_two_bytes : GB18030_two_bytes[pair] = ch

----------------------------------------------------------------------------
(* SpecificCharacterSet::codec and the TextCodec implementations *)

\* the encoding each codec's decode and encode call
Scan(cs, text, p) ==
    CASE cs = "Default"  -> ISO_8859_1_scan(text, p)
      [] cs = "IsoIr100" -> ISO_8859_1_scan(text, p)
      [] cs = "IsoIr101" -> ISO_8859_2_scan(text, p)
      [] cs = "IsoIr192" -> UTF_8_scan(text, p)
      [] cs = "GB18030"  -> GB18030_scan(text, p)

CanEncode(cs, ch) ==
    CASE cs = "Default"  -> ISO_8859_1_can_encode(ch)
      [] cs = "IsoIr100" -> ISO_8859_1_can_encode(ch)
      [] cs = "IsoIr101" -> ISO_8859_2_can_encode(ch)
      [] cs = "IsoIr192" -> UTF_8_can_encode(ch)
      [] cs = "GB18030"  -> GB18030_can_encode(ch)

EncodeChar(cs, ch) ==
    CASE cs = "Default"  -> ISO_8859_1_encode_char(ch)
      [] cs = "IsoIr100" -> ISO_8859_1_encode_char(ch)
      [] cs = "IsoIr101" -> ISO_8859_2_encode_char(ch)
      [] cs = "IsoIr192" -> UTF_8_encode_char(ch)
      [] cs = "GB18030"  -> GB18030_encode_char(ch)

\* TextCodec::encode: .encode(text, EncoderTrap::Strict) -- an error, and no
\* bytes, when a character is outside the repertoire
encode(cs, str) ==
    IF \A k \in DOMAIN str : CanEncode(cs, str[k])
    THEN [ok |-> TRUE, bytes |-> Flatten([k \in DOMAIN str |-> EncodeChar(cs, str[k])])]
    ELSE [ok |-> FALSE, bytes |-> <<>>]

decode_text_trap_wrong_mask(input) ==
    LET c == input[1]
        o0 == c % 8
        o1 == (c \div 8) % 8
        o2 == (c \div 64) % 2
    IN  [out |-> <<92, o2 + 48, o1 + 48, o0 + 48>>, ok |-> TRUE]

\* fn decode_text_trap: c & 7, (c & 56) >> 3, (c & 192) >> 6; b'\\' is 92,
\* b'0' is 48
decode_text_trap(input) ==
    LET c == input[1]
        o0 == c % 8
        o1 == (c % 64) \div 8
        o2 == (c % 256) \div 64
    IN  [out |-> <<92, o2 + 48, o1 + 48, o0 + 48>>, ok |-> TRUE]

----------------------------------------------------------------------------
(* One call of a codec, step by step *)

TextCall(cs, encoded, origin, text) ==
    [TxtIdle EXCEPT !.phase = "feed", !.cs = cs, !.encoded = encoded,
                    !.origin = origin, !.text = text]

\* codec.encode(str) returns Ok(bytes), which are then given to codec.decode
TextEncodeOk ==
    /\ txt.phase = "idle"
    /\ \E cs \in CharacterSets : \E str \in Strings(cs) :
          /\ encode(cs, str).ok
          /\ txt' = TextCall(cs, TRUE, str, encode(cs, str).bytes)
    /\ UNCHANGED <<srv_vars, dimse_vars, lookup>>

\* codec.encode(str) returns Err
TextEncodeErr ==
    /\ txt.phase = "idle"
    /\ \E cs \in CharacterSets : \E str \in Strings(cs) :
          /\ ~encode(cs, str).ok
          /\ txt' = [TxtIdle EXCEPT !.phase = "encode_err", !.cs = cs,
                                    !.origin = str,
                                    !.text = encode(cs, str).bytes,
                                    !.result = "Err"]
    /\ UNCHANGED <<srv_vars, dimse_vars, lookup>>

\* codec.decode(bytes) is called on bytes read from a data set
TextDecodeCall ==
    /\ txt.phase = "idle"
    /\ \E cs \in CharacterSets : \E bytes \in ByteSeqs(cs) :
          txt' = TextCall(cs, FALSE, <<>>, bytes)
    /\ UNCHANGED <<srv_vars, dimse_vars, lookup>>

\* the decoder writes the next character
DecodeChar ==
    /\ txt.phase = "feed"
    /\ txt.remaining < Len(txt.text)
    /\ LET f == Scan(txt.cs, txt.text, txt.remaining)
       IN  /\ f.kind = "char"
           /\ txt' = [txt EXCEPT !.ret = Append(@, f.ch),
                                 !.remaining = @ + f.len,
                                 !.unprocessed = txt.remaining + f.len]
    /\ UNCHANGED <<srv_vars, dimse_vars, lookup>>

\* the decoder reports the invalid sequence input[unprocessed..remaining]
DecodeInvalid ==
    /\ txt.phase = "feed"
    /\ txt.remaining < Len(txt.text)
    /\ LET f == Scan(txt.cs, txt.text, txt.remaining)
       IN  /\ f.kind = "invalid"
           /\ txt' = [txt EXCEPT !.phase = "trap",
                                 !.unprocessed = txt.remaining,
                                 !.remaining = @ + f.len]
    /\ UNCHANGED <<srv_vars, dimse_vars, lookup>>

\* DecoderTrap::Call(decode_text_trap) on the invalid sequence: decoding
\* goes on when the trap returns true and ends with Err when it does not
DecodeTrap ==
    /\ txt.phase = "trap"
    /\ LET r == decode_text_trap(SubSeq(txt.text, txt.unprocessed + 1, txt.remaining))
       IN  txt' = IF r.ok
                  THEN [txt EXCEPT !.phase = "feed", !.ret = @ \o r.out,
                                   !.unprocessed = txt.remaining]
                  ELSE [txt EXCEPT !.phase = "done", !.result = "Err"]
    /\ UNCHANGED <<srv_vars, dimse_vars, lookup>>

\* the input is used up: decode returns Ok(ret)
DecodeFinish ==
    /\ txt.phase = "feed"
    /\ txt.remaining = Len(txt.text)
    /\ txt' = [txt EXCEPT !.phase = "done", !.result = "Ok"]
    /\ UNCHANGED <<srv_vars, dimse_vars, lookup>>

InitText ==
    /\ env = EnvIdle
    /\ sync_srv = ServerInit
    /\ async_srv = ServerInit
    /\ assoc = AssocIdle
    /\ last = LastIdle
    /\ out_dir = {}
    /\ txt = TxtIdle
    /\ lookup = LookupIdle

NextText ==
    \/ TextEncodeOk
    \/ TextEncodeErr
    \/ TextDecodeCall
    \/ DecodeChar
    \/ DecodeInvalid
    \/ DecodeTrap
    \/ DecodeFinish

SpecText == InitText /\ [][NextText]_vars

----------------------------------------------------------------------------
(* Properties of the text codecs *)

\* The step from txt to txt' wrote, after what was written before, the
\* marker of byte c: a backslash and three octal digits d2 d1 d0, d2 at
\* most 3, with 64 * d2 + 8 * d1 + d0 = c.
MarkerWritten(c) ==
    LET n == Len(txt.ret)
        r == txt'.ret
    IN  /\ txt'.phase = "feed"
        /\ Len(r) = n + 4
        /\ SubSeq(r, 1, n) = txt.ret
        /\ r[n + 1] = 92
        /\ r[n + 2] \in 48..51
        /\ r[n + 3] \in 48..55
        /\ r[n + 4] \in 48..55
        /\ 64 * (r[n + 2] - 48) + 8 * (r[n + 3] - 48) + (r[n + 4] - 48) = c

\* C9: decoding with any of the five codecs is in replacing mode: each
\* invalid sequence the decoder reports is replaced by a backslash and the
\* three octal digits of the sequence's first byte, decoding goes on after
\* it, and decode ends with Ok for every input.
C9_DecodeReplaces ==
    [][ /\ txt.phase = "trap" => MarkerWritten(txt.text[txt.unprocessed + 1])
        /\ txt'.phase = "done" => txt'.result = "Ok"
      ]_vars

\* C9's case: ISO_IR 192 decodes 41 FF to A\377.
C9_Witness ==
    /\ txt.phase = "done"
    /\ txt.cs = "IsoIr192"
    /\ txt.text = <<65, 255>>
    /\ txt.ret = <<65, 92, 51, 55, 55>>

\* C10: for every codec and every string its encode accepts, decoding the
\* encoded bytes gives the string back; encode returns an error and no bytes
\* for a character outside the repertoire (above U+00FF for Default and
\* ISO_IR 100); Default and ISO_IR 100 decode each byte to the character
\* whose code point is the byte's value.
C10_RoundTrip ==
    /\ (txt.phase = "done" /\ txt.encoded)
          => txt.result = "Ok" /\ txt.ret = txt.origin
    /\ (txt.phase = "done" /\ txt.cs \in {"Default", "IsoIr100"})
          => txt.ret = txt.text
    /\ txt.phase = "encode_err"
          => /\ txt.text = <<>>
             /\ txt.origin # <<>>
             /\ txt.cs \in {"Default", "IsoIr100"}
                   => \E k \in DOMAIN txt.origin : txt.origin[k] > 255

\* C10's case: ISO_IR 192 encoded a two-character string beyond ASCII to
\* five bytes and decoded them.
C10_Witness ==
    /\ txt.phase = "done"
    /\ txt.encoded
    /\ txt.cs = "IsoIr192"
    /\ txt.origin = <<245, 20013>>
    /\ txt.text = <<195, 181, 228, 184, 173>>

(***************************************************************************)
(* Part 4.  SpecificCharacterSet: codec, the codecs' names, from_code.     *)
(* An identifier is a string: a sequence of code points.                   *)
(***************************************************************************)

\* char::is_whitespace, which str::trim_end removes: the White_Space
\* characters up to U+00FF
WhiteSpace == {9, 10, 11, 12, 13, 32, 133, 160}

\* str::trim_end
RECURSIVE trim_end(_)
trim_end(str) ==
    IF str # <<>> /\ str[Len(str)] \in WhiteSpace
    THEN trim_end(SubSeq(str, 1, Len(str) - 1))
    ELSE str

Some(cs) == [found |-> TRUE, variant |-> cs]
None == [found |-> FALSE, variant |-> "none"]

from_code_untrimmed(uid) ==
    LET t == uid
    IN  CASE t = <<68, 101, 102, 97, 117, 108, 116>> -> Some("Default")  \* "Default"
          [] t = <<73, 83, 79, 95, 73, 82, 95, 54>> -> Some("Default")  \* "ISO_IR_6"
          [] t = <<73, 83, 79, 95, 73, 82, 32, 54>> -> Some("Default")  \* "ISO_IR 6"
          [] t = <<73, 83, 79, 95, 73, 82, 95, 49, 48, 48>> -> Some("IsoIr100")  \* "ISO_IR_100"
          [] t = <<73, 83, 79, 95, 73, 82, 32, 49, 48, 48>> -> Some("IsoIr100")  \* "ISO_IR 100"
          [] t = <<73, 83, 79, 95, 73, 82, 95, 49, 48, 49>> -> Some("IsoIr101")  \* "ISO_IR_101"
          [] t = <<73, 83, 79, 95, 73, 82, 32, 49, 48, 49>> -> Some("IsoIr101")  \* "ISO_IR 101"
          [] t = <<73, 83, 79, 95, 73, 82, 32, 49, 57, 50>> -> Some("IsoIr192")  \* "ISO_IR 192"
          [] t = <<71, 66, 49, 56, 48, 51, 48>> -> Some("GB18030")  \* "GB18030"
          [] OTHER -> None

\* SpecificCharacterSet::from_code: match uid.trim_end()
from_code(uid) ==
    LET t == trim_end(uid)
    IN  CASE t = <<68, 101, 102, 97, 117, 108, 116>> -> Some("Default")  \* "Default"
          [] t = <<73, 83, 79, 95, 73, 82, 95, 54>> -> Some("Default")  \* "ISO_IR_6"
          [] t = <<73, 83, 79, 95, 73, 82, 32, 54>> -> Some("Default")  \* "ISO_IR 6"
          [] t = <<73, 83, 79, 95, 73, 82, 95, 49, 48, 48>> -> Some("IsoIr100")  \* "ISO_IR_100"
          [] t = <<73, 83, 79, 95, 73, 82, 32, 49, 48, 48>> -> Some("IsoIr100")  \* "ISO_IR 100"
          [] t = <<73, 83, 79, 95, 73, 82, 95, 49, 48, 49>> -> Some("IsoIr101")  \* "ISO_IR_101"
          [] t = <<73, 83, 79, 95, 73, 82, 32, 49, 48, 49>> -> Some("IsoIr101")  \* "ISO_IR 101"
          [] t = <<73, 83, 79, 95, 73, 82, 32, 49, 57, 50>> -> Some("IsoIr192")  \* "ISO_IR 192"
          [] t = <<71, 66, 49, 56, 48, 51, 48>> -> Some("GB18030")  \* "GB18030"
          [] OTHER -> None

\* SpecificCharacterSet::codec: the codec struct boxed for each variant
codec(cs) ==
    CASE cs = "Default"  -> [some |-> TRUE, codec |-> "DefaultCharacterSetCodec"]
      [] cs = "IsoIr100" -> [some |-> TRUE, codec |-> "IsoIr100CharacterSetCodec"]
      [] cs = "IsoIr101" -> [some |-> TRUE, codec |-> "IsoIr101CharacterSetCodec"]
      [] cs = "IsoIr192" -> [some |-> TRUE, codec |-> "Utf8CharacterSetCodec"]
      [] cs = "GB18030"  -> [some |-> TRUE, codec |-> "Gb18030CharacterSetCodec"]

\* TextCodec::name of each codec struct
name(c) ==
    CASE c = "DefaultCharacterSetCodec" -> <<73, 83, 79, 95, 73, 82, 32, 54>>   \* "ISO_IR 6"
      [] c = "IsoIr100CharacterSetCodec" -> <<73, 83, 79, 95, 73, 82, 32, 49, 48, 48>>   \* "ISO_IR 100"
      [] c = "IsoIr101CharacterSetCodec" -> <<73, 83, 79, 95, 73, 82, 32, 49, 48, 49>>   \* "ISO_IR 101"
      [] c = "Utf8CharacterSetCodec" -> <<73, 83, 79, 95, 73, 82, 32, 49, 57, 50>>   \* "ISO_IR 192"
      [] c = "Gb18030CharacterSetCodec" -> <<71, 66, 49, 56, 48, 51, 48>>   \* "GB18030"

\* The defined terms from_code matches.
DefinedTerms ==
    { <<68, 101, 102, 97, 117, 108, 116>>,   \* "Default"
      <<73, 83, 79, 95, 73, 82, 95, 54>>,   \* "ISO_IR_6"
      <<73, 83, 79, 95, 73, 82, 32, 54>>,   \* "ISO_IR 6"
      <<73, 83, 79, 95, 73, 82, 95, 49, 48, 48>>,   \* "ISO_IR_100"
      <<73, 83, 79, 95, 73, 82, 32, 49, 48, 48>>,   \* "ISO_IR 100"
      <<73, 83, 79, 95, 73, 82, 95, 49, 48, 49>>,   \* "ISO_IR_101"
      <<73, 83, 79, 95, 73, 82, 32, 49, 48, 49>>,   \* "ISO_IR 101"
      <<73, 83, 79, 95, 73, 82, 32, 49, 57, 50>>,   \* "ISO_IR 192"
      <<71, 66, 49, 56, 48, 51, 48>> }   \* "GB18030"

\* Identifiers that are no defined term: empty, led by a space, in lower
\* case, ISO_IR 192 with an underscore, ended by a NUL, cut short, too long,
\* terms of character sets the enum does not list.
OtherIdentifiers ==
    { <<>>,   \* ""
      <<32, 73, 83, 79, 95, 73, 82, 32, 49, 48, 48>>,   \* " ISO_IR 100"
      <<105, 115, 111, 95, 105, 114, 32, 49, 48, 48>>,   \* "iso_ir 100"
      <<73, 83, 79, 95, 73, 82, 95, 49, 57, 50>>,   \* "ISO_IR_192"
      <<73, 83, 79, 95, 73, 82, 32, 54, 0>>,   \* "ISO_IR 6<NUL>"
      <<73, 83, 79, 95, 73, 82, 32, 49>>,   \* "ISO_IR 1"
      <<73, 83, 79, 95, 73, 82, 32, 49, 48, 48, 48>>,   \* "ISO_IR 1000"
      <<73, 83, 79, 32, 50, 48, 50, 50, 32, 73, 82, 32, 54>>,   \* "ISO 2022 IR 6"
      <<71, 66, 50, 51, 49, 50>>,   \* "GB2312"
      <<73, 83, 79, 95, 73, 82, 32, 32, 54>> }   \* "ISO_IR  6"

\* Whitespace the model puts after an identifier: space, tab, line feed;
\* and NUL, which is no whitespace.
PadChars == {32, 9, 10, 0}

\* cs.codec() returns a codec and its name() is taken
CodecName(cs) ==
    /\ lookup.phase = "idle"
    /\ codec(cs).some
    /\ lookup' = [LookupIdle EXCEPT !.phase = "named", !.cs = cs,
                                    !.base = name(codec(cs).codec),
                                    !.uid = name(codec(cs).codec)]
    /\ UNCHANGED <<srv_vars, dimse_vars, txt>>

\* an identifier is read from a Specific Character Set element
GivenIdentifier(uid) ==
    /\ lookup.phase = "idle"
    /\ lookup' = [LookupIdle EXCEPT !.phase = "given", !.base = uid, !.uid = uid]
    /\ UNCHANGED <<srv_vars, dimse_vars, txt>>

\* the identifier comes with one more character of padding
PadEnd(w) ==
    /\ lookup.phase \in {"named", "given"}
    /\ Len(lookup.uid) - Len(lookup.base) < MaxPad
    /\ lookup' = [lookup EXCEPT !.uid = Append(@, w)]
    /\ UNCHANGED <<srv_vars, dimse_vars, txt>>

\* SpecificCharacterSet::from_code(uid)
FromCode ==
    /\ lookup.phase \in {"named", "given"}
    /\ lookup' = [lookup EXCEPT !.phase = "looked",
                                !.found = from_code(lookup.uid).found,
                                !.variant = from_code(lookup.uid).variant]
    /\ UNCHANGED <<srv_vars, dimse_vars, txt>>

NextCharset ==
    \/ \E cs \in CharacterSets : CodecName(cs)
    \/ \E uid \in DefinedTerms \cup OtherIdentifiers : GivenIdentifier(uid)
    \/ \E w \in PadChars : PadEnd(w)
    \/ FromCode

SpecCharset == InitText /\ [][NextCharset]_vars

----------------------------------------------------------------------------
(* Properties of the character set lookup *)

\* the padding that follows the identifier is whitespace only
PaddedByWhiteSpace ==
    \A k \in (Len(lookup.base) + 1)..Len(lookup.uid) : lookup.uid[k] \in WhiteSpace

\* C11: every variant of SpecificCharacterSet has a codec; the codec's name
\* neither starts nor ends with a space and is the name of no other
\* variant's codec; from_code of the name, also when whitespace follows it,
\* returns the variant again; and from_code returns None for an identifier
\* that, without the whitespace after it, is none of the defined terms.
C11_CharacterSetsNamedConsistently ==
    /\ \A cs \in CharacterSets : codec(cs).some
    /\ lookup.phase = "named"
          => /\ lookup.base # <<>>
             /\ lookup.base[1] # 32
             /\ lookup.base[Len(lookup.base)] # 32
             /\ \A other \in CharacterSets \ {lookup.cs} :
                    name(codec(other).codec) # lookup.base
    /\ (lookup.phase = "looked" /\ lookup.cs # "none" /\ PaddedByWhiteSpace)
          => lookup.found /\ lookup.variant = lookup.cs
    /\ (lookup.phase = "looked" /\ lookup.cs = "none" /\ PaddedByWhiteSpace
           /\ lookup.base \notin
        { <<68, 101, 102, 97, 117, 108, 116>>,
          <<73, 83, 79, 95, 73, 82, 95, 54>>,
          <<73, 83, 79, 95, 73, 82, 32, 54>>,
          <<73, 83, 79, 95, 73, 82, 95, 49, 48, 48>>,
          <<73, 83, 79, 95, 73, 82, 32, 49, 48, 48>>,
          <<73, 83, 79, 95, 73, 82, 95, 49, 48, 49>>,
          <<73, 83, 79, 95, 73, 82, 32, 49, 48, 49>>,
          <<73, 83, 79, 95, 73, 82, 32, 49, 57, 50>>,
          <<71, 66, 49, 56, 48, 51, 48>> })
          => ~lookup.found

\* C11's case: the name of the ISO_IR 192 codec, followed by a space and a
\* tab, was given to from_code, which returned IsoIr192.
C11_Witness ==
    /\ lookup.phase = "looked"
    /\ lookup.cs = "IsoIr192"
    /\ lookup.uid = <<73, 83, 79, 95, 73, 82, 32, 49, 57, 50, 32, 9>>
    /\ lookup.found
    /\ lookup.variant = "IsoIr192"

====
